---- MODULE Spec2Model ----
(***************************************************************************)
(* A model of cryptokit's Transaction (cryptokit/transaction.py): the      *)
(* parse (disassemble) and serialize (assemble) algorithms, the lazily     *)
(* cached raw buffer and hash, and the coinbase test.                      *)
(*                                                                         *)
(* Byte strings are sequences of numbers 0..255.  An optional value        *)
(* (Python's None or a value) is the empty sequence or a one-element       *)
(* sequence.  TLC's integers are 32-bit signed, so every integer field     *)
(* value and every decoded integer of the bounded inputs is below 2^31;    *)
(* the widths of the encodings are the program's (4 and 8 bytes).          *)
(***************************************************************************)
EXTENDS Integers, Sequences, FiniteSets, TLC

VARIABLES
    raw,                  \* self._raw: None or the owned byte buffer
    inputs,               \* self.inputs: sequence of Input records
    outputs,              \* self.outputs: sequence of Output records
    locktime,             \* self.locktime
    n_time,               \* self.n_time: None unless constructed with pos
    fees,                 \* self.fees: informational, never serialized
    version,              \* self.version: None until set
    hash,                 \* self._hash: None or the cached digest
    transaction_message,  \* self.transaction_message: None unless messages
    op,                   \* the operation performed by the last step
    arg,                  \* its arguments
    ret,                  \* the value it returned
    err                   \* the exception it raised, "none" if it returned

vars == <<raw, inputs, outputs, locktime, n_time, fees, version, hash,
          transaction_message, op, arg, ret, err>>

-----------------------------------------------------------------------------
(* Optional values *)

None == <<>>
Some(x) == <<x>>
IsNone(o) == Len(o) = 0
Val(o) == o[1]

(* Python slicing of a byte string: out-of-range bounds are clamped. *)
Min(a, b) == IF a < b THEN a ELSE b
Take(b, n) == SubSeq(b, 1, Min(n, Len(b)))
Drop(b, n) == SubSeq(b, Min(n, Len(b)) + 1, Len(b))
Slice(b, i, j) == Take(Drop(b, i), j - i)

Zeros(n) == [i \in 1..n |-> 0]
Fill(n, x) == [i \in 1..n |-> x]

-----------------------------------------------------------------------------
(* Fixed-width little-endian integers: struct.pack / BitcoinEncoding.funpack *)

RECURSIVE pack(_, _)
\* pack('<L' | '<Q' | '<i', n) with w the width in bytes; floor division and
\* a non-negative remainder give the two's complement bytes of a negative n.
pack(w, n) == IF w = 0 THEN <<>> ELSE <<n % 256>> \o pack(w - 1, n \div 256)

RECURSIVE LittleEndian(_)
LittleEndian(b) == IF Len(b) = 0 THEN 0 ELSE b[1] + 256 * LittleEndian(Tail(b))

\* funpack(fmt, b): struct.unpack raises struct.error unless b has exactly
\* the width of the format.
funpack(w, b) ==
    IF Len(b) = w THEN [err |-> "none", val |-> LittleEndian(b)]
                  ELSE [err |-> "struct.error", val |-> 0]

-----------------------------------------------------------------------------
(* Variable-length integers: BitcoinEncoding.varlen_encode / varlen_decode *)

varlen_encode(number) ==
    IF number < 253 THEN pack(1, number)
    ELSE IF number <= 65535 THEN <<253>> \o pack(2, number)
    ELSE IF number \div 65536 <= 65535 THEN <<254>> \o pack(4, number)
    ELSE <<255>> \o pack(8, number)

\* Returns the value and the remaining buffer; indexing an empty buffer
\* raises IndexError, a short payload raises struct.error.
varlen_decode(b) ==
    IF Len(b) = 0 THEN [err |-> "IndexError", val |-> 0, rest |-> b]
    ELSE LET w == CASE b[1] = 255 -> 8 [] b[1] = 254 -> 4 [] b[1] = 253 -> 2
                    [] OTHER -> 0
         IN  IF w = 0 THEN [err |-> "none", val |-> b[1], rest |-> Tail(b)]
             ELSE LET u == funpack(w, Slice(b, 1, 1 + w))
                  IN  [err |-> u.err, val |-> u.val, rest |-> Drop(b, 1 + w)]

\* dark.ser_string: the length as a variable-length integer, then the bytes.
ser_string(s) == varlen_encode(Len(s)) \o s

-----------------------------------------------------------------------------
(* The digest.  SHA-256 is not computed: the double digest of a buffer is   *)
(* an uninterpreted value that determines the buffer (no collisions), and   *)
(* the byte order of the 32 digest bytes is kept beside it.                 *)

DoubleSha256(b) == [of |-> b, order |-> "digest"]
Reversed(d) == [of |-> d.of, order |-> IF d.order = "digest" THEN "reversed"
                                                             ELSE "digest"]

-----------------------------------------------------------------------------
(* Input and Output records *)

Input(prevout_hash, prevout_idx, script_sig, seqno) ==
    [prevout_hash |-> prevout_hash, prevout_idx |-> prevout_idx,
     script_sig |-> script_sig, seqno |-> seqno]

Output(amount, script_pub_key) ==
    [amount |-> amount, script_pub_key |-> script_pub_key]

_nullprev == Zeros(32)

-----------------------------------------------------------------------------
(* The Transaction object as a record of its attributes *)

Self == [raw |-> raw, inputs |-> inputs, outputs |-> outputs,
         locktime |-> locktime, n_time |-> n_time, fees |-> fees,
         version |-> version, hash |-> hash,
         transaction_message |-> transaction_message]

\* Python truthiness of an optional argument: None, 0 and b'' are false.
TruthyInt(o) == ~IsNone(o) /\ Val(o) # 0
TruthyBytes(o) == ~IsNone(o) /\ Len(Val(o)) > 0

-----------------------------------------------------------------------------
(* Transaction.disassemble.  The call is a sequence of stages over a       *)
(* cursor p: the object as assigned so far (p.self), the bytes not yet     *)
(* consumed (p.data) and the exception raised (p.err).  An exception ends  *)
(* the call: the later stages leave the cursor as it is, so every          *)
(* assignment made before the exception stays.                             *)

\* if fees: self.fees = fees; if raw: self._raw = bytes(raw); data = self._raw.
\* Slicing None raises TypeError.
Start(s, rawArg, feesArg) ==
    LET s1 == [s EXCEPT !.fees = IF TruthyInt(feesArg) THEN feesArg ELSE @,
                        !.raw = IF TruthyBytes(rawArg) THEN rawArg ELSE @]
    IN  IF IsNone(s1.raw)
          THEN [self |-> s1, data |-> <<>>, err |-> "TypeError"]
          ELSE [self |-> s1, data |-> Val(s1.raw), err |-> "none"]

\* self.version = self.funpack('<L', data[:4]); the cursor moves to data[4:].
ReadVersion(p) ==
    IF p.err # "none" THEN p
    ELSE LET v == funpack(4, Take(p.data, 4))
         IN  IF v.err # "none" THEN [p EXCEPT !.err = v.err]
             ELSE [p EXCEPT !.self.version = Some(v.val),
                            !.data = Drop(p.data, 4)]

\* One iteration of the input loop.
ReadInput(p) ==
    LET prevout_hash == Take(p.data, 32)
        prevout_idx == funpack(4, Slice(p.data, 32, 36))
        ss == varlen_decode(Drop(p.data, 36))
        script_sig == Take(ss.rest, ss.val)
        seqno == funpack(4, Slice(ss.rest, ss.val, ss.val + 4))
    IN  IF prevout_idx.err # "none" THEN [p EXCEPT !.err = prevout_idx.err]
        ELSE IF ss.err # "none" THEN [p EXCEPT !.err = ss.err]
        ELSE IF seqno.err # "none" THEN [p EXCEPT !.err = seqno.err]
        ELSE [p EXCEPT
                !.self.inputs = Append(@, Input(prevout_hash, prevout_idx.val,
                                                script_sig, seqno.val)),
                !.data = Drop(ss.rest, ss.val + 4)]

RECURSIVE InputLoop(_, _)
InputLoop(p, n) ==
    IF n = 0 \/ p.err # "none" THEN p ELSE InputLoop(ReadInput(p), n - 1)

\* input_count, data = self.varlen_decode(data[4:]); self.inputs = []; the loop.
ReadInputs(p) ==
    IF p.err # "none" THEN p
    ELSE LET c == varlen_decode(p.data)
         IN  IF c.err # "none" THEN [p EXCEPT !.err = c.err]
             ELSE InputLoop([p EXCEPT !.self.inputs = <<>>, !.data = c.rest],
                            c.val)

\* One iteration of the output loop.
ReadOutput(p) ==
    LET amount == funpack(8, Take(p.data, 8))
        ps == varlen_decode(Drop(p.data, 8))
        pk_script == Take(ps.rest, ps.val)
    IN  IF amount.err # "none" THEN [p EXCEPT !.err = amount.err]
        ELSE IF ps.err # "none" THEN [p EXCEPT !.err = ps.err]
        ELSE [p EXCEPT
                !.self.outputs = Append(@, Output(amount.val, pk_script)),
                !.data = Drop(ps.rest, ps.val)]

RECURSIVE OutputLoop(_, _)
OutputLoop(p, n) ==
    IF n = 0 \/ p.err # "none" THEN p ELSE OutputLoop(ReadOutput(p), n - 1)

\* output_count, data = self.varlen_decode(data); self.outputs = []; the loop.
ReadOutputs(p) ==
    IF p.err # "none" THEN p
    ELSE LET c == varlen_decode(p.data)
         IN  IF c.err # "none" THEN [p EXCEPT !.err = c.err]
             ELSE OutputLoop([p EXCEPT !.self.outputs = <<>>, !.data = c.rest],
                             c.val)

\* self.locktime = self.funpack('<L', data[:4]); self._hash = None.
ReadLocktime(p) ==
    IF p.err # "none" THEN p
    ELSE LET l == funpack(4, Take(p.data, 4))
         IN  IF l.err # "none" THEN [p EXCEPT !.err = l.err]
             ELSE [p EXCEPT !.self.locktime = l.val, !.self.hash = None]

\* A laxer condition, which accepts bytes after the lock time.
AtLeastLocktime(data) == Len(data) >= 4

\* The condition of the assert: the bytes left after the outputs are the
\* four of the lock time.
NoTrailingData(data) == Len(data) = 4

\* assert len(data) == 4
CheckTrailing(p) ==
    IF p.err # "none" THEN p
    ELSE IF NoTrailingData(p.data) THEN p
    ELSE [p EXCEPT !.err = "AssertionError"]

\* A disassemble that never releases the buffer.
KeepRaw(p, dump_raw) == p

\* if dump_raw: self._raw = None
DumpRaw(p, dump_raw) ==
    IF p.err # "none" THEN p
    ELSE IF dump_raw THEN [p EXCEPT !.self.raw = None]
    ELSE p

\* disassemble(raw, dump_raw, fees) on the object s: the object as the call
\* leaves it (.self) and the exception raised, if any (.err).
disassemble(s, rawArg, dump_raw, feesArg) ==
    DumpRaw(CheckTrailing(ReadLocktime(ReadOutputs(ReadInputs(ReadVersion(
        Start(s, rawArg, feesArg)))))), dump_raw)

-----------------------------------------------------------------------------
(* Transaction.assemble *)

\* A default that overwrites the version whether it is set or not.
AlwaysDefaultVersion(s) ==
    IF ~IsNone(s.transaction_message) THEN Some(2) ELSE Some(1)

\* The version assemble serializes: the default is taken only when unset.
DefaultVersion(s) ==
    IF ~IsNone(s.version) THEN s.version
    ELSE IF ~IsNone(s.transaction_message) THEN Some(2) ELSE Some(1)

\* An input written with its sequence number before its script.
WriteInputSeqnoFirst(b, i) ==
    LET d == b.data \o i.prevout_hash \o pack(4, i.prevout_idx)
                    \o pack(4, i.seqno)
    IN  [data |-> d \o varlen_encode(Len(i.script_sig)) \o i.script_sig,
         split_point |-> Some(Len(d))]

\* One iteration of the input loop on the buffer b: b.data is the buffer so
\* far, b.split_point the offset recorded by the latest iteration.
WriteInput(b, i) ==
    LET d == b.data \o i.prevout_hash \o pack(4, i.prevout_idx)
                    \o varlen_encode(Len(i.script_sig)) \o i.script_sig
    IN  [data |-> d \o pack(4, i.seqno), split_point |-> Some(Len(d))]

RECURSIVE WriteInputs(_, _)
WriteInputs(b, ins) ==
    IF Len(ins) = 0 THEN b ELSE WriteInputs(WriteInput(b, Head(ins)), Tail(ins))

WriteOutput(b, o) ==
    [b EXCEPT !.data = @ \o pack(8, o.amount)
                         \o varlen_encode(Len(o.script_pub_key))
                         \o o.script_pub_key]

RECURSIVE WriteOutputs(_, _)
WriteOutputs(b, outs) ==
    IF Len(outs) = 0 THEN b
    ELSE WriteOutputs(WriteOutput(b, Head(outs)), Tail(outs))

\* The version, the optional timestamp and the input count.
WriteHeader(s) ==
    [data |-> pack(4, Val(s.version))
              \o (IF ~IsNone(s.n_time) THEN pack(4, Val(s.n_time)) ELSE <<>>)
              \o varlen_encode(Len(s.inputs)),
     split_point |-> None]

\* The output count, written after the inputs.
WriteOutputCount(b, s) == [b EXCEPT !.data = @ \o varlen_encode(Len(s.outputs))]

\* The lock time and the optional message.
WriteTrailer(b, s) ==
    [b EXCEPT !.data =
        @ \o pack(4, s.locktime)
          \o (IF ~IsNone(s.transaction_message)
                THEN ser_string(Val(s.transaction_message)) ELSE <<>>)]

\* The buffer and the split point assemble builds from the fields of s,
\* whose version is set.
Serialize(s) ==
    WriteTrailer(
        WriteOutputs(
            WriteOutputCount(WriteInputs(WriteHeader(s), s.inputs), s),
            s.outputs),
        s)

\* data[:split_point] and data[split_point:]; a None bound of a Python
\* slice is no bound, so both slices are the whole buffer.
SplitHalves(b) ==
    IF IsNone(b.split_point) THEN <<b.data, b.data>>
    ELSE <<Take(b.data, Val(b.split_point)), Drop(b.data, Val(b.split_point))>>

\* self._raw = data; self._hash = None; the value returned.
Store(s, b, split) ==
    [self |-> [s EXCEPT !.raw = Some(b.data), !.hash = None],
     err |-> "none",
     ret |-> IF split THEN [kind |-> "split", val |-> SplitHalves(b)]
                      ELSE [kind |-> "bytes", val |-> b.data]]

WithVersion(s) == [s EXCEPT !.version = DefaultVersion(s)]

Assembled(s1, split) == Store(s1, Serialize(s1), split)

\* assemble(split) on the object s: the object it leaves and what it returns.
assemble(s, split) == Assembled(WithVersion(s), split)

-----------------------------------------------------------------------------
(* The properties raw, hash and is_coinbase *)

Raised == [kind |-> "raised", val |-> None]

\* Transaction.raw: assembles first when no buffer is held.
raw_property(s) ==
    IF IsNone(s.raw) THEN assemble(s, FALSE)
    ELSE [self |-> s, err |-> "none",
          ret |-> [kind |-> "bytes", val |-> Val(s.raw)]]

\* self._hash = sha256(sha256(self._raw).digest()).digest()[::-1]
Digest(b) == Reversed(DoubleSha256(b))

\* Transaction.hash: digests self._raw when nothing is cached; sha256(None)
\* raises TypeError.
hash_property(s) ==
    IF ~IsNone(s.hash)
      THEN [self |-> s, err |-> "none",
            ret |-> [kind |-> "hash", val |-> Val(s.hash)]]
    ELSE IF IsNone(s.raw)
      THEN [self |-> s, err |-> "TypeError", ret |-> Raised]
    ELSE [self |-> [s EXCEPT !.hash = Some(Digest(Val(s.raw)))],
          err |-> "none",
          ret |-> [kind |-> "hash", val |-> Digest(Val(s.raw))]]

\* The stricter test of the reference protocol, which also requires the
\* coinbase index (here the largest index of the bounded inputs).
is_coinbase_strict(s) ==
    IF Len(s.inputs) = 0
      THEN [err |-> "IndexError", ret |-> [kind |-> "raised", val |-> None]]
    ELSE [err |-> "none",
          ret |-> [kind |-> "bool",
                   val |-> /\ s.inputs[1].prevout_hash = Zeros(32)
                           /\ s.inputs[1].prevout_idx = 2147483647]]

\* Transaction.is_coinbase: self.inputs[0] raises IndexError on an empty list.
is_coinbase(s) ==
    IF Len(s.inputs) = 0 THEN [err |-> "IndexError", ret |-> Raised]
    ELSE [err |-> "none",
          ret |-> [kind |-> "bool",
                   val |-> s.inputs[1].prevout_hash = _nullprev]]

-----------------------------------------------------------------------------
(* Transaction.__init__ *)

\* The object the constructor builds before its optional disassemble call.
Constructed(rawArg, feesArg, pos, messages) ==
    [raw |-> IF TruthyBytes(rawArg) THEN rawArg ELSE None,
     inputs |-> <<>>, outputs |-> <<>>, locktime |-> 0,
     n_time |-> IF pos THEN Some(0) ELSE None,
     fees |-> feesArg, version |-> None, hash |-> None,
     transaction_message |-> IF messages THEN Some(<<>>) ELSE None]

\* Transaction(raw, fees, disassemble, pos, messages): with disassemble set
\* the constructor ends with self.disassemble().
__init__(rawArg, feesArg, dis, pos, messages) ==
    IF dis THEN disassemble(Constructed(rawArg, feesArg, pos, messages),
                            None, FALSE, None)
    ELSE [self |-> Constructed(rawArg, feesArg, pos, messages),
          data |-> <<>>, err |-> "none"]

-----------------------------------------------------------------------------
(* Bounds and the values the callers' arguments are drawn from *)

MaxInputs == 2      \* inputs of a transaction built by the caller
MaxOutputs == 1     \* outputs of a transaction built by the caller
MaxAppended == 1    \* inputs (outputs) appended to an object already in use

H1 == Fill(32, 17)
NearNull == Zeros(31) \o <<1>>
P2PKH == <<118, 169, 20>> \o Fill(20, 17) \o <<136, 172>>

CoinbaseInput == Input(_nullprev, 2147483647, <<81, 0>>, 0)
SpendInput == Input(H1, 0, <<>>, 2147483647)
NearNullInput == Input(NearNull, 2147483647, <<>>, 0)
NullSpendInput == Input(_nullprev, 1, <<7>>, 5)
InputChoices == {CoinbaseInput, NearNullInput, NullSpendInput}
AppendedInputs == {SpendInput}

OutputChoices == {Output(0, <<>>), Output(5000, P2PKH)}
AppendedOutputs == {Output(0, <<>>)}
LocktimeChoices == {500000}
VersionChoices == {3}
MessageChoices == {<<104, 105>>}
FeesChoices == {None}

\* The transaction of the specification's concrete scenario (with 7fffffff
\* for ffffffff), written out byte by byte.
ScenarioRaw ==
    <<1, 0, 0, 0>> \o <<1>> \o Zeros(32) \o <<255, 255, 255, 127>>
      \o <<2, 81, 0>> \o <<255, 255, 255, 127>>
      \o <<1>> \o Zeros(8) \o <<0>> \o <<0, 0, 0, 0>>
\* An empty transaction whose counts are written with the 3-byte and the
\* 5-byte forms of the variable-length integer.
NonCanonicalRaw ==
    <<1, 0, 0, 0>> \o <<253, 0, 0>> \o <<254, 0, 0, 0, 0>> \o <<9, 0, 0, 0>>
\* Malformed buffers: too short for the version, and cut inside the lock
\* time.
ShortRaw == <<1, 0, 0>>
CutLocktimeRaw == Take(ScenarioRaw, Len(ScenarioRaw) - 1)
Buffers == {ScenarioRaw, NonCanonicalRaw, ShortRaw, CutLocktimeRaw}
Trailers == {<<0>>, <<1, 0, 0, 0, 0>>}

NoArg == [raw |-> None, flag |-> FALSE]
Returned(k, v) == [kind |-> k, val |-> v]

\* The buffers a caller passes to disassemble: none, or a well-formed or a
\* malformed buffer.
OfferedRaws == {None} \cup {Some(b) : b \in {ScenarioRaw, ShortRaw}}

\* The buffers passed to disassemble in the codec's runs: none, one of
\* Buffers, or the encoding the object has just produced or accepted with
\* bytes appended.
CodecOfferedRaws ==
    {None} \cup {Some(b) : b \in Buffers}
    \cup IF ~IsNone(raw) /\ err = "none" /\ op \in {"assemble", "disassemble"}
           THEN {Some(Val(raw) \o t) : t \in Trailers} ELSE {}

-----------------------------------------------------------------------------
(* The state machine *)

Becomes(s) ==
    /\ raw' = s.raw
    /\ inputs' = s.inputs
    /\ outputs' = s.outputs
    /\ locktime' = s.locktime
    /\ n_time' = s.n_time
    /\ fees' = s.fees
    /\ version' = s.version
    /\ hash' = s.hash
    /\ transaction_message' = s.transaction_message

Holds(s) ==
    /\ raw = s.raw
    /\ inputs = s.inputs
    /\ outputs = s.outputs
    /\ locktime = s.locktime
    /\ n_time = s.n_time
    /\ fees = s.fees
    /\ version = s.version
    /\ hash = s.hash
    /\ transaction_message = s.transaction_message

Init ==
    \E r \in OfferedRaws, dis \in BOOLEAN,
       pos \in BOOLEAN, messages \in BOOLEAN :
        \E c \in {__init__(r, None, dis, pos, messages)} :
            /\ c.err = "none"
            /\ Holds(c.self)
            /\ op = "__init__"
            /\ arg = [raw |-> r, flag |-> dis]
            /\ ret = Returned("self", None)
            /\ err = "none"

DisassembleFrom(offered) ==
    \E r \in offered, dump_raw \in BOOLEAN, f \in FeesChoices :
        \E d \in {disassemble(Self, r, dump_raw, f)} :
            /\ Becomes(d.self)
            /\ op' = "disassemble"
            /\ arg' = [raw |-> r, flag |-> dump_raw]
            /\ err' = d.err
            /\ ret' = IF d.err = "none" THEN Returned("self", None) ELSE Raised

Disassemble == DisassembleFrom(OfferedRaws)

Assemble ==
    \E split \in BOOLEAN :
        \E a \in {assemble(Self, split)} :
            /\ Becomes(a.self)
            /\ op' = "assemble"
            /\ arg' = [raw |-> None, flag |-> split]
            /\ err' = "none"
            /\ ret' = a.ret

ReadRaw ==
    \E r \in {raw_property(Self)} :
        /\ Becomes(r.self)
        /\ op' = "raw"
        /\ arg' = NoArg
        /\ err' = r.err
        /\ ret' = r.ret

ReadHash ==
    \E h \in {hash_property(Self)} :
        /\ Becomes(h.self)
        /\ op' = "hash"
        /\ arg' = NoArg
        /\ err' = h.err
        /\ ret' = h.ret

ReadIsCoinbase ==
    \E c \in {is_coinbase(Self)} :
        /\ op' = "is_coinbase"
        /\ arg' = NoArg
        /\ err' = c.err
        /\ ret' = c.ret
        /\ UNCHANGED <<raw, inputs, outputs, locktime, n_time, fees, version,
                       hash, transaction_message>>

\* Assignments to the public attributes by the caller.  Nothing of the
\* class runs: the other attributes, the buffer and the cached hash stay.
\* (n_time is assigned by the constructor only.)
Assigned(name) ==
    /\ op' = name
    /\ arg' = NoArg
    /\ err' = "none"
    /\ ret' = Returned("none", None)

AppendInput ==
    /\ Len(inputs) < MaxAppended
    /\ \E i \in AppendedInputs : inputs' = Append(inputs, i)
    /\ Assigned("inputs")
    /\ UNCHANGED <<raw, outputs, locktime, n_time, fees, version, hash,
                   transaction_message>>

AppendOutput ==
    /\ Len(outputs) < MaxAppended
    /\ \E o \in AppendedOutputs : outputs' = Append(outputs, o)
    /\ Assigned("outputs")
    /\ UNCHANGED <<raw, inputs, locktime, n_time, fees, version, hash,
                   transaction_message>>

SetLocktime ==
    /\ \E l \in LocktimeChoices : l # locktime /\ locktime' = l
    /\ Assigned("locktime")
    /\ UNCHANGED <<raw, inputs, outputs, n_time, fees, version, hash,
                   transaction_message>>

SetVersion ==
    /\ \E v \in VersionChoices : Some(v) # version /\ version' = Some(v)
    /\ Assigned("version")
    /\ UNCHANGED <<raw, inputs, outputs, locktime, n_time, fees, hash,
                   transaction_message>>

SetMessage ==
    /\ ~IsNone(transaction_message)
    /\ \E m \in MessageChoices :
          Some(m) # transaction_message /\ transaction_message' = Some(m)
    /\ Assigned("transaction_message")
    /\ UNCHANGED <<raw, inputs, outputs, locktime, n_time, fees, version, hash>>

Next ==
    \/ Disassemble
    \/ Assemble
    \/ ReadRaw
    \/ ReadHash
    \/ AppendInput
    \/ AppendOutput
    \/ SetLocktime
    \/ SetVersion
    \/ SetMessage

Spec == Init /\ [][Next]_vars

-----------------------------------------------------------------------------
(* The codec on transactions built by the caller: the object is            *)
(* constructed without a buffer, its attributes are assigned (inputs and   *)
(* outputs appended, lock time and version set), and from then on it is    *)
(* only serialized, parsed and read.                                       *)

RECURSIVE SeqsUpTo(_, _)
SeqsUpTo(S, n) ==
    IF n = 0 THEN {<<>>}
    ELSE LET shorter == SeqsUpTo(S, n - 1)
         IN  shorter \cup {Append(q, x) : q \in shorter, x \in S}

Built ==
    {[Constructed(None, None, pos, messages) EXCEPT
        !.inputs = ins, !.outputs = outs, !.locktime = l, !.version = v] :
      pos \in BOOLEAN, messages \in BOOLEAN,
      ins \in SeqsUpTo(InputChoices, MaxInputs),
      outs \in SeqsUpTo(OutputChoices, MaxOutputs),
      l \in {0} \cup LocktimeChoices,
      v \in {None} \cup {Some(x) : x \in VersionChoices}}

CodecInit ==
    \E s \in Built :
        /\ Holds(s)
        /\ op = "__init__"
        /\ arg = NoArg
        /\ ret = Returned("self", None)
        /\ err = "none"

CodecDisassemble == DisassembleFrom(CodecOfferedRaws)

CodecNext ==
    \/ CodecDisassemble
    \/ Assemble
    \/ ReadRaw
    \/ ReadHash
    \/ ReadIsCoinbase

CodecSpec == CodecInit /\ [][CodecNext]_vars

-----------------------------------------------------------------------------
(* Definitions used to state the properties *)

\* The operations that assign a structured field.
MutationOps == {"inputs", "outputs", "locktime", "version",
                "transaction_message"}

\* The buffer a disassemble step parses: the one passed, or the one held.
ParsedBuffer(a, held) == IF TruthyBytes(a.raw) THEN Val(a.raw) ELSE Val(held)

\* data begins with a variable-length integer written in its shortest form.
CanonicalCount(data) ==
    \E d \in {varlen_decode(data)} :
        d.err = "none" /\ varlen_encode(d.val) \o d.rest = data

RECURSIVE CanonicalInputs(_, _)
CanonicalInputs(p, n) ==
    n = 0 \/ (/\ CanonicalCount(Drop(p.data, 36))
              /\ CanonicalInputs(ReadInput(p), n - 1))

RECURSIVE CanonicalOutputs(_, _)
CanonicalOutputs(p, n) ==
    n = 0 \/ (/\ CanonicalCount(Drop(p.data, 8))
              /\ CanonicalOutputs(ReadOutput(p), n - 1))

\* Every count and script length of the well-formed buffer b is written in
\* its shortest form.
Canonical(b) ==
    \E p0 \in {[self |-> Constructed(None, None, FALSE, FALSE),
                data |-> Drop(b, 4), err |-> "none"]} :
      /\ CanonicalCount(p0.data)
      /\ CanonicalInputs([p0 EXCEPT !.data = varlen_decode(p0.data).rest],
                         varlen_decode(p0.data).val)
      /\ \E p1 \in {ReadInputs(p0)} :
           /\ CanonicalCount(p1.data)
           /\ CanonicalOutputs([p1 EXCEPT !.data = varlen_decode(p1.data).rest],
                               varlen_decode(p1.data).val)

\* The fields of the specification's concrete scenario.
ScenarioInputs == <<Input(_nullprev, 2147483647, <<81, 0>>, 2147483647)>>
ScenarioOutputs == <<Output(0, <<>>)>>

-----------------------------------------------------------------------------
(* C1 *)

\* C1 (round trip): a disassemble of the bytes that assemble has just
\* produced succeeds and leaves inputs, outputs, locktime and version as they
\* were, whichever optional fields the Transaction was constructed with.
C1_RoundTrip ==
    [][(op = "assemble" /\ op' = "disassemble" /\ IsNone(arg'.raw))
         => /\ err' = "none"
            /\ inputs' = inputs
            /\ outputs' = outputs
            /\ locktime' = locktime
            /\ version' = version]_vars

-----------------------------------------------------------------------------
(* C2 *)

\* C2 (split point): the two segments returned by assemble(split=True),
\* concatenated, are the buffer assemble(split=False) returns on the same
\* state; with inputs, the first segment ends with the last input's
\* script_sig and the second starts with its sequence number.
C2_SplitPoint ==
    (op = "assemble" /\ arg.flag)
      => /\ ret.val[1] \o ret.val[2] = assemble(Self, FALSE).ret.val
         /\ Len(inputs) > 0 =>
              \E last \in {inputs[Len(inputs)]} :
                /\ Take(ret.val[2], 4) = pack(4, last.seqno)
                /\ Drop(ret.val[1], Len(ret.val[1]) - Len(last.script_sig))
                     = last.script_sig

-----------------------------------------------------------------------------
(* C3 *)

\* C3 (trailing data): a disassemble that succeeds has parsed a buffer whose
\* last four bytes are the lock time; and a disassemble of a buffer made of
\* an encoding the object has just accepted, or has just produced in the
\* base layout, followed by extra bytes raises an error.
C3_TrailingDataRejected ==
    [][/\ (op' = "disassemble" /\ err' = "none")
            => \E b \in {ParsedBuffer(arg', raw)} :
                  Drop(b, Len(b) - 4) = pack(4, locktime')
       /\ (/\ \/ op = "disassemble" /\ err = "none"
              \/ op = "assemble" /\ IsNone(n_time)
                                 /\ IsNone(transaction_message)
           /\ ~IsNone(raw)
           /\ op' = "disassemble"
           /\ ~IsNone(arg'.raw)
           /\ Len(Val(arg'.raw)) > Len(Val(raw))
           /\ Take(Val(arg'.raw), Len(Val(raw))) = Val(raw))
            => err' # "none"]_vars

\* A disassemble of a base-layout encoding followed by extra bytes has
\* raised AssertionError.
C3_Witness ==
    /\ op = "disassemble"
    /\ err = "AssertionError"
    /\ ~IsNone(arg.raw)
    /\ Len(inputs) > 0
    /\ \E t \in Trailers :
         Val(arg.raw) = Serialize([Self EXCEPT !.n_time = None,
                                      !.transaction_message = None]).data \o t

-----------------------------------------------------------------------------
(* C4 *)

\* C4 (mutation invalidates the cache): an assignment to a structured field
\* made while a hash is cached leaves no hash cached.
C4_MutationInvalidatesHash ==
    [][(op' \in MutationOps /\ ~IsNone(hash)) => IsNone(hash')]_vars

-----------------------------------------------------------------------------
(* C5 *)

\* C5 (hash follows raw): in every reachable state a cached hash is the
\* reversed double digest of the buffer the Transaction holds.
C5_HashFollowsRaw ==
    ~IsNone(hash) => (~IsNone(raw) /\ Val(hash) = Digest(Val(raw)))

-----------------------------------------------------------------------------
(* C6 *)

\* C6 (implicit assembly): a read of hash on a Transaction that holds no
\* buffer does not fail: it leaves the assembled buffer stored and returns
\* its digest.
C6_HashAssemblesFirst ==
    [][(op' = "hash" /\ IsNone(raw))
         => /\ err' = "none"
            /\ ~IsNone(raw')
            /\ ret'.kind = "hash"
            /\ ret'.val = Digest(Val(raw'))]_vars

-----------------------------------------------------------------------------
(* C7 *)

\* C7 (coinbase detection): is_coinbase returns true exactly when there is a
\* first input and its prevout_hash is the 32 zero bytes, whatever its other
\* fields and the later inputs are.
C7_CoinbaseDetection ==
    op = "is_coinbase"
      => ((ret.kind = "bool" /\ ret.val)
            <=> (Len(inputs) > 0 /\ inputs[1].prevout_hash = Zeros(32)))

\* is_coinbase has returned true for a null first input whose index is not
\* the coinbase index and which is followed by an ordinary input.
C7_Witness ==
    /\ op = "is_coinbase"
    /\ ret.kind = "bool"
    /\ ret.val
    /\ Len(inputs) = 2
    /\ inputs[1].prevout_idx = 1
    /\ inputs[2].prevout_hash # Zeros(32)

-----------------------------------------------------------------------------
(* C8 *)

\* C8 (lazy version default): a Transaction constructed without parsing has
\* no version; only assemble (called directly or by a read of raw with no
\* buffer held), disassemble and an assignment change the version; assemble
\* sets an unset version to 2 with the message field enabled and to 1
\* otherwise, and leaves a set version as it is.
C8_LazyVersionDefault ==
    /\ (op = "__init__" /\ ~arg.flag) => IsNone(version)
    /\ [][/\ op' \notin {"assemble", "raw", "disassemble", "version"}
               => version' = version
          /\ (op' = "assemble" \/ (op' = "raw" /\ IsNone(raw)))
               => version' =
                    IF ~IsNone(version) THEN version
                    ELSE IF ~IsNone(transaction_message) THEN Some(2)
                    ELSE Some(1)
          /\ (op' = "raw" /\ ~IsNone(raw)) => version' = version]_vars

\* assemble has run on a Transaction whose version had been assigned and
\* whose message field is enabled, and the version is still the assigned one.
C8_Witness ==
    /\ op = "assemble"
    /\ version = Some(3)
    /\ ~IsNone(transaction_message)

-----------------------------------------------------------------------------
(* C9 *)

\* C9 (dump_raw): a successful disassemble with dump_raw leaves no buffer
\* held and the parsed values in the fields (those of the scenario for the
\* scenario's buffer); without dump_raw the buffer passed stays stored; and a
\* read of raw with no buffer held stores and returns the serialization of
\* the fields.
C9_DumpRawAndRederive ==
    [][/\ (op' = "disassemble" /\ err' = "none" /\ arg'.flag)
            => /\ IsNone(raw')
               /\ arg'.raw = Some(ScenarioRaw)
                    => /\ inputs' = ScenarioInputs
                       /\ outputs' = ScenarioOutputs
                       /\ locktime' = 0
                       /\ version' = Some(1)
       /\ (op' = "disassemble" /\ err' = "none" /\ ~arg'.flag
             /\ TruthyBytes(arg'.raw))
            => raw' = arg'.raw
       /\ (op' = "raw" /\ IsNone(raw))
            => /\ err' = "none"
               /\ <<inputs', outputs', locktime', n_time',
                    transaction_message'>>
                    = <<inputs, outputs, locktime, n_time,
                        transaction_message>>
               /\ raw' = Some(Serialize(Self').data)
               /\ ret' = Returned("bytes", Val(raw'))]_vars

\* A disassemble of the scenario's buffer with dump_raw has returned: no
\* buffer is held and the fields are the parsed ones.
C9_Witness ==
    /\ op = "disassemble"
    /\ err = "none"
    /\ arg = [raw |-> Some(ScenarioRaw), flag |-> TRUE]
    /\ IsNone(raw)
    /\ inputs = ScenarioInputs
    /\ outputs = ScenarioOutputs

-----------------------------------------------------------------------------
(* C10 *)

\* C10 (byte-level round trip): with the timestamp and message fields
\* disabled, assemble after a successful disassemble of a buffer whose
\* variable-length integers are canonical returns and stores that buffer,
\* with no hash cached, so the next hash read digests that buffer.
C10_ByteRoundTrip ==
    [][(/\ op = "disassemble" /\ err = "none"
        /\ ~IsNone(raw)
        /\ IsNone(n_time) /\ IsNone(transaction_message)
        /\ Canonical(Val(raw))
        /\ op' = "assemble" /\ ~arg'.flag)
         => /\ ret' = Returned("bytes", Val(raw))
            /\ raw' = raw
            /\ IsNone(hash')
            /\ hash_property(Self').ret = Returned("hash", Digest(Val(raw)))]_vars

\* assemble has returned the scenario's buffer for the fields parsed from it.
C10_Witness ==
    /\ op = "assemble"
    /\ ~arg.flag
    /\ inputs = ScenarioInputs
    /\ IsNone(n_time)
    /\ IsNone(transaction_message)
    /\ ret = Returned("bytes", ScenarioRaw)

====
